---- MODULE Spec2Model ----
(***************************************************************************)
(* Model of the notebook                                                   *)
(*   customizing-your-models-with-Tensorflow2/                             *)
(*     007-READING-tracking-metrics-in-custom-training-loops.ipynb         *)
(*                                                                         *)
(* Three specifications share the module:                                  *)
(*   Spec      the custom training loop (cell 13) followed by the test-set *)
(*             evaluation (cells 15 and 16), one action per source line;   *)
(*   SpecMean  the mean-loss pipeline as a pure computation: samples are   *)
(*             grouped by Dataset.batch, each batch is reduced by the loss *)
(*             object, the reduced values are fed to a Mean metric;        *)
(*   SpecPad   pad_sequences(maxlen=100, truncating='post') (cell 4).      *)
(*                                                                         *)
(* Numbers that are floats in the notebook are exact rationals <<n, d>>    *)
(* here (d > 0, lowest terms), so sums and means are exact.                *)
(***************************************************************************)
EXTENDS Integers, Sequences, FiniteSets, TLC

VARIABLES
    \* ---- training loop and test evaluation ----
    pc,                     \* position of the notebook's control flow
    epoch,                  \* loop variable of "for epoch in range(num_epochs)"
    numTrain,               \* number of batches train_dataset yields
    numVal,                 \* number of batches val_dataset yields
    numTest,                \* number of batches test_dataset yields
    ti,                     \* training batches read so far in this epoch
    vi,                     \* validation batches read so far in this epoch
    si,                     \* test batches read so far
    inputs,                 \* the batch bound by the running for statement
    params,                 \* model.trainable_variables: index of the value in
                            \* the parameter trajectory theta_0, theta_1, ...
    model_preds,            \* last predictions: which batch, which parameters
    loss_value,             \* last loss value returned by grad
    grads,                  \* last gradients returned by grad
    train_epoch_loss_avg,
    train_epoch_roc_auc,
    val_epoch_loss_avg,
    val_epoch_roc_auc,
    test_epoch_loss_avg,
    test_epoch_roc_auc,
    model_pred,             \* predictions of the test cell
    test_out,               \* lines printed by the test cell
    train_loss_results,
    train_roc_auc_results,
    val_loss_results,
    val_roc_auc_results,
    out,                    \* lines printed so far
    failed,                 \* an exception has been raised
    reads,                  \* history: result() calls per metric object
    \* ---- mean-loss pipeline (SpecMean) ----
    samples,                \* per-sample loss values of one pass over a dataset
    batch_size,             \* argument of Dataset.batch
    mi,                     \* batches fed so far
    mean_acc,               \* the Mean metric object
    fed_losses,             \* the per-batch loss values fed so far
    mean_result,            \* what result() returned
    mpc,
    \* ---- padding (SpecPad) ----
    seq,                    \* one token sequence of the raw data
    padded,                 \* pad_sequences applied once
    repadded,               \* pad_sequences applied to its own output
    ppc

loopVars == <<pc, epoch, numTrain, numVal, numTest, ti, vi, si, inputs, params,
              model_preds, loss_value, grads,
              train_epoch_loss_avg, train_epoch_roc_auc,
              val_epoch_loss_avg, val_epoch_roc_auc,
              test_epoch_loss_avg, test_epoch_roc_auc, model_pred, test_out,
              train_loss_results, train_roc_auc_results,
              val_loss_results, val_roc_auc_results,
              out, failed, reads>>

meanVars == <<samples, batch_size, mi, mean_acc, fed_losses, mean_result, mpc>>

padVars == <<seq, padded, repadded, ppc>>

pureVars == <<meanVars, padVars>>

vars == <<loopVars, meanVars, padVars>>

----------------------------------------------------------------------------
(* Bounds of the model *)

MaxTrain == 3        \* train_dataset yields 0..MaxTrain batches
MaxVal == 12         \* val_dataset yields 0..MaxVal batches (more than val_steps)
MaxTest == 2         \* test_dataset yields 0..MaxTest batches
MaxSamples == 4      \* SpecMean: samples in one pass
MaxBatch == 3        \* SpecMean: batch sizes 1..MaxBatch
MaxLoss == 3         \* SpecMean: per-sample losses 1..MaxLoss
MaxSeqLen == 102     \* SpecPad: raw sequences of 0..MaxSeqLen tokens
MaxStride == 2       \* SpecPad: token patterns
MaxToken == 5        \* SpecPad: token ids 1..MaxToken

(* Program constants *)

num_epochs == 5
val_steps == 10
maxlen == 100

----------------------------------------------------------------------------
(* Exact rationals *)

RECURSIVE GCD(_, _)
GCD(a, b) == IF b = 0 THEN a ELSE GCD(b, a % b)

Rat(n, d) == LET g == GCD(n, d) IN IF g = 0 THEN <<0, 1>> ELSE <<n \div g, d \div g>>

RAdd(x, y) == Rat(x[1] * y[2] + y[1] * x[2], x[2] * y[2])

RDivInt(x, k) == Rat(x[1], x[2] * k)

Min(a, b) == IF a < b THEN a ELSE b

RECURSIVE SumSeq(_)
SumSeq(s) == IF s = <<>> THEN 0 ELSE Head(s) + SumSeq(Tail(s))

RECURSIVE RSumSeq(_)
RSumSeq(s) == IF s = <<>> THEN <<0, 1>> ELSE RAdd(Head(s), RSumSeq(Tail(s)))

----------------------------------------------------------------------------
(* Metric objects.                                                         *)
(* A Mean keeps a running total and a count; result() is total / count,    *)
(* and 0 when nothing was accumulated.  An AUC keeps the observations it   *)
(* was given (the confusion counts are a function of them).  The field fed *)
(* records, for either kind, which batch under which parameters went in.   *)

NewMean == [total |-> <<0, 1>>, count |-> 0, fed |-> <<>>]

MeanUpdate(m, v, tag) ==
    [total |-> RAdd(m.total, v), count |-> m.count + 1, fed |-> Append(m.fed, tag)]

MeanResult(m) == IF m.count = 0 THEN <<0, 1>> ELSE RDivInt(m.total, m.count)

NewAUC == [fed |-> <<>>]

AUCUpdate(a, tag) == [fed |-> Append(a.fed, tag)]

AUCResult(a) == a.fed

MetricNames == {"train_loss", "train_auc", "val_loss", "val_auc"}

(* The model and the loss object.  A batch is named by the dataset it      *)
(* comes from, the epoch of the pass and its position in the pass; the     *)
(* forward pass and the loss are functions of the batch and the current    *)
(* parameters.                                                             *)

Batch(ds, e, i) == [ds |-> ds, epoch |-> e, idx |-> i]

NoBatch == Batch("none", 0, 0)

Predict(p, b) == [batch |-> b, params |-> p]

NoPreds == Predict(0, NoBatch)

LossOf(preds) == <<1 + ((preds.batch.idx + preds.params) % 3), 1>>

Gradient(preds) == [batch |-> preds.batch, params |-> preds.params]

(* "Epoch {:03d}".format(epoch): decimal digits, zero-padded to width 3 *)

RECURSIVE Digits(_)
Digits(n) == IF n < 10 THEN <<n>> ELSE Append(Digits(n \div 10), n % 10)

RECURSIVE ZeroFill(_, _)
ZeroFill(d, w) == IF Len(d) >= w THEN d ELSE ZeroFill(<<0>> \o d, w)

Format03d(n) == ZeroFill(Digits(n), 3)

RECURSIVE ParseDigits(_)
ParseDigits(d) ==
    IF d = <<>> THEN 0 ELSE 10 * ParseDigits(SubSeq(d, 1, Len(d) - 1)) + d[Len(d)]

----------------------------------------------------------------------------
(* The training loop, cell 13 *)

metricVars == <<train_epoch_loss_avg, train_epoch_roc_auc,
                val_epoch_loss_avg, val_epoch_roc_auc>>

testVars == <<numTest, si, test_epoch_loss_avg, test_epoch_roc_auc, model_pred,
              test_out>>

resultVars == <<train_loss_results, train_roc_auc_results,
                val_loss_results, val_roc_auc_results>>

stepVars == <<model_preds, loss_value, grads>>

sizeVars == <<numTrain, numVal>>

InitLoop ==
    /\ pc = "for_epoch"
    /\ epoch = 0
    /\ numTrain \in 0..MaxTrain
    /\ numVal \in 0..MaxVal
    /\ numTest \in 0..MaxTest
    /\ ti = 0 /\ vi = 0 /\ si = 0
    /\ inputs = NoBatch
    /\ params = 0
    /\ model_preds = NoPreds
    /\ loss_value = <<0, 1>>
    /\ grads = Gradient(NoPreds)
    /\ train_epoch_loss_avg = NewMean
    /\ train_epoch_roc_auc = NewAUC
    /\ val_epoch_loss_avg = NewMean
    /\ val_epoch_roc_auc = NewAUC
    /\ test_epoch_loss_avg = NewMean
    /\ test_epoch_roc_auc = NewAUC
    /\ model_pred = NoPreds
    /\ test_out = <<>>
    /\ train_loss_results = <<>>
    /\ train_roc_auc_results = <<>>
    /\ val_loss_results = <<>>
    /\ val_roc_auc_results = <<>>
    /\ out = <<>>
    /\ failed = FALSE
    /\ reads = [m \in MetricNames |-> 0]

(* ForEpoch running one epoch more *)
ForEpoch_onemore ==
    /\ pc = "for_epoch"
    /\ pc' = IF epoch <= num_epochs THEN "new_metrics" ELSE "test_metrics"
    /\ UNCHANGED <<pureVars, epoch, sizeVars, testVars, ti, vi, inputs, params, stepVars,
                   metricVars, resultVars, out, failed, reads>>

(* for epoch in range(num_epochs): *)
ForEpoch ==
    /\ pc = "for_epoch"
    /\ pc' = IF epoch < num_epochs THEN "new_metrics" ELSE "test_metrics"
    /\ UNCHANGED <<pureVars, epoch, sizeVars, testVars, ti, vi, inputs, params, stepVars,
                   metricVars, resultVars, out, failed, reads>>

(* NewMetrics creating the metric objects in the first epoch only *)
NewMetrics_once ==
    /\ pc = "new_metrics"
    /\ IF epoch = 0
         THEN /\ train_epoch_loss_avg' = NewMean
              /\ train_epoch_roc_auc' = NewAUC
              /\ val_epoch_loss_avg' = NewMean
              /\ val_epoch_roc_auc' = NewAUC
         ELSE UNCHANGED metricVars
    /\ reads' = [m \in MetricNames |-> 0]
    /\ ti' = 0
    /\ pc' = "for_train"
    /\ UNCHANGED <<pureVars, epoch, sizeVars, testVars, vi, inputs, params, stepVars,
                   resultVars, out, failed>>

(* the four metric objects are created anew *)
NewMetrics ==
    /\ pc = "new_metrics"
    /\ train_epoch_loss_avg' = NewMean
    /\ train_epoch_roc_auc' = NewAUC
    /\ val_epoch_loss_avg' = NewMean
    /\ val_epoch_roc_auc' = NewAUC
    /\ reads' = [m \in MetricNames |-> 0]
    /\ ti' = 0
    /\ pc' = "for_train"
    /\ UNCHANGED <<pureVars, epoch, sizeVars, testVars, vi, inputs, params, stepVars,
                   resultVars, out, failed>>

(* ForTrain with the validation loop left out *)
ForTrain_novalidation ==
    /\ pc = "for_train"
    /\ IF ti < numTrain
         THEN /\ ti' = ti + 1
              /\ inputs' = Batch("train", epoch, ti + 1)
              /\ vi' = vi
              /\ pc' = "grad"
         ELSE /\ vi' = 0
              /\ UNCHANGED <<ti, inputs>>
              /\ pc' = "append_train_loss"
    /\ UNCHANGED <<pureVars, epoch, sizeVars, testVars, params, stepVars, metricVars,
                   resultVars, out, failed, reads>>

(* for inputs, labels in train_dataset: *)
ForTrain ==
    /\ pc = "for_train"
    /\ IF ti < numTrain
         THEN /\ ti' = ti + 1
              /\ inputs' = Batch("train", epoch, ti + 1)
              /\ vi' = vi
              /\ pc' = "grad"
         ELSE /\ vi' = 0
              /\ UNCHANGED <<pureVars, ti, inputs>>
              /\ pc' = "for_val"
    /\ UNCHANGED <<pureVars, epoch, sizeVars, testVars, params, stepVars, metricVars,
                   resultVars, out, failed, reads>>

(* Grad taking an optimizer step of its own *)
Grad_updating ==
    /\ pc = "grad"
    /\ LET preds == Predict(params, inputs) IN
         /\ model_preds' = preds
         /\ loss_value' = LossOf(preds)
         /\ grads' = Gradient(preds)
    /\ params' = params + 1
    /\ pc' = "apply_gradients"
    /\ UNCHANGED <<pureVars, epoch, sizeVars, testVars, ti, vi, inputs, metricVars,
                   resultVars, out, failed, reads>>

(* model_preds, loss_value, grads = grad(model, inputs, labels, loss) *)
Grad ==
    /\ pc = "grad"
    /\ LET preds == Predict(params, inputs) IN
         /\ model_preds' = preds
         /\ loss_value' = LossOf(preds)
         /\ grads' = Gradient(preds)
    /\ pc' = "apply_gradients"
    /\ UNCHANGED <<pureVars, epoch, sizeVars, testVars, ti, vi, inputs, params, metricVars,
                   resultVars, out, failed, reads>>

(* ApplyGradients applying the gradients twice *)
ApplyGradients_twice ==
    /\ pc = "apply_gradients"
    /\ params' = params + 2
    /\ pc' = "train_loss_avg"
    /\ UNCHANGED <<pureVars, epoch, sizeVars, testVars, ti, vi, inputs, stepVars, metricVars,
                   resultVars, out, failed, reads>>

(* optimizer.apply_gradients(zip(grads, model.trainable_variables)) *)
ApplyGradients ==
    /\ pc = "apply_gradients"
    /\ params' = params + 1
    /\ pc' = "train_loss_avg"
    /\ UNCHANGED <<pureVars, epoch, sizeVars, testVars, ti, vi, inputs, stepVars, metricVars,
                   resultVars, out, failed, reads>>

(* TrainLossAvg fed a loss recomputed with the updated parameters *)
TrainLossAvg_afterupdate ==
    /\ pc = "train_loss_avg"
    /\ train_epoch_loss_avg' = MeanUpdate(train_epoch_loss_avg,
                                          LossOf(Predict(params, inputs)),
                                          Predict(params, inputs))
    /\ pc' = "train_roc_auc"
    /\ UNCHANGED <<pureVars, epoch, sizeVars, testVars, ti, vi, inputs, params, stepVars,
                   train_epoch_roc_auc, val_epoch_loss_avg, val_epoch_roc_auc,
                   resultVars, out, failed, reads>>

(* train_epoch_loss_avg(loss_value) *)
TrainLossAvg ==
    /\ pc = "train_loss_avg"
    /\ train_epoch_loss_avg' = MeanUpdate(train_epoch_loss_avg, loss_value, model_preds)
    /\ pc' = "train_roc_auc"
    /\ UNCHANGED <<pureVars, epoch, sizeVars, testVars, ti, vi, inputs, params, stepVars,
                   train_epoch_roc_auc, val_epoch_loss_avg, val_epoch_roc_auc,
                   resultVars, out, failed, reads>>

(* train_epoch_roc_auc(to_categorical(labels, num_classes=46), model_preds) *)
TrainRocAuc ==
    /\ pc = "train_roc_auc"
    /\ train_epoch_roc_auc' = AUCUpdate(train_epoch_roc_auc, model_preds)
    /\ pc' = "for_train"
    /\ UNCHANGED <<pureVars, epoch, sizeVars, testVars, ti, vi, inputs, params, stepVars,
                   train_epoch_loss_avg, val_epoch_loss_avg, val_epoch_roc_auc,
                   resultVars, out, failed, reads>>

(* Take yielding the whole dataset *)
Take_all(size, n) == size

(* Dataset.take(n): a dataset of at most n elements, the first ones *)
Take(size, n) == IF n < size THEN n ELSE size

(* for inputs, labels in val_dataset.take(val_steps):                      *)
(* val_dataset is shuffled anew for every pass, so a batch is named by the *)
(* epoch of its pass as well as by its position.                           *)
ForVal ==
    /\ pc = "for_val"
    /\ IF vi < Take(numVal, val_steps)
         THEN /\ vi' = vi + 1
              /\ inputs' = Batch("val", epoch, vi + 1)
              /\ pc' = "val_preds"
         ELSE /\ UNCHANGED <<pureVars, vi, inputs>>
              /\ pc' = "append_train_loss"
    /\ UNCHANGED <<pureVars, epoch, sizeVars, testVars, ti, params, stepVars, metricVars,
                   resultVars, out, failed, reads>>

(* model_preds = model(inputs) *)
ValPreds ==
    /\ pc = "val_preds"
    /\ model_preds' = Predict(params, inputs)
    /\ pc' = "val_loss_avg"
    /\ UNCHANGED <<pureVars, epoch, sizeVars, testVars, ti, vi, inputs, params, loss_value,
                   grads, metricVars, resultVars, out, failed, reads>>

(* val_epoch_loss_avg(loss(labels, model_preds)) *)
ValLossAvg ==
    /\ pc = "val_loss_avg"
    /\ val_epoch_loss_avg' = MeanUpdate(val_epoch_loss_avg, LossOf(model_preds), model_preds)
    /\ pc' = "val_roc_auc"
    /\ UNCHANGED <<pureVars, epoch, sizeVars, testVars, ti, vi, inputs, params, stepVars,
                   train_epoch_loss_avg, train_epoch_roc_auc, val_epoch_roc_auc,
                   resultVars, out, failed, reads>>

(* val_epoch_roc_auc(to_categorical(labels, num_classes=46), model_preds) *)
ValRocAuc ==
    /\ pc = "val_roc_auc"
    /\ val_epoch_roc_auc' = AUCUpdate(val_epoch_roc_auc, model_preds)
    /\ pc' = "for_val"
    /\ UNCHANGED <<pureVars, epoch, sizeVars, testVars, ti, vi, inputs, params, stepVars,
                   train_epoch_loss_avg, train_epoch_roc_auc, val_epoch_loss_avg,
                   resultVars, out, failed, reads>>

Read(names) == [m \in MetricNames |-> IF m \in names THEN reads[m] + 1 ELSE reads[m]]

(* train_loss_results.append(train_epoch_loss_avg.result().numpy()) *)
AppendTrainLoss ==
    /\ pc = "append_train_loss"
    /\ train_loss_results' = Append(train_loss_results, MeanResult(train_epoch_loss_avg))
    /\ reads' = Read({"train_loss"})
    /\ pc' = "append_train_roc_auc"
    /\ UNCHANGED <<pureVars, epoch, sizeVars, testVars, ti, vi, inputs, params, stepVars,
                   metricVars, train_roc_auc_results, val_loss_results,
                   val_roc_auc_results, out, failed>>

(* train_roc_auc_results.append(train_epoch_roc_auc.result().numpy()) *)
AppendTrainRocAuc ==
    /\ pc = "append_train_roc_auc"
    /\ train_roc_auc_results' = Append(train_roc_auc_results, AUCResult(train_epoch_roc_auc))
    /\ reads' = Read({"train_auc"})
    /\ pc' = "append_val_loss"
    /\ UNCHANGED <<pureVars, epoch, sizeVars, testVars, ti, vi, inputs, params, stepVars,
                   metricVars, train_loss_results, val_loss_results,
                   val_roc_auc_results, out, failed>>

(* AppendValLoss reading the training metric *)
AppendValLoss_copied ==
    /\ pc = "append_val_loss"
    /\ val_loss_results' = Append(val_loss_results, MeanResult(train_epoch_loss_avg))
    /\ reads' = Read({"train_loss"})
    /\ pc' = "append_val_roc_auc"
    /\ UNCHANGED <<pureVars, epoch, sizeVars, testVars, ti, vi, inputs, params, stepVars,
                   metricVars, train_loss_results, train_roc_auc_results,
                   val_roc_auc_results, out, failed>>

(* val_loss_results.append(val_epoch_loss_avg.result().numpy()) *)
AppendValLoss ==
    /\ pc = "append_val_loss"
    /\ val_loss_results' = Append(val_loss_results, MeanResult(val_epoch_loss_avg))
    /\ reads' = Read({"val_loss"})
    /\ pc' = "append_val_roc_auc"
    /\ UNCHANGED <<pureVars, epoch, sizeVars, testVars, ti, vi, inputs, params, stepVars,
                   metricVars, train_loss_results, train_roc_auc_results,
                   val_roc_auc_results, out, failed>>

(* val_roc_auc_results.append(val_epoch_roc_auc.result().numpy()) *)
AppendValRocAuc ==
    /\ pc = "append_val_roc_auc"
    /\ val_roc_auc_results' = Append(val_roc_auc_results, AUCResult(val_epoch_roc_auc))
    /\ reads' = Read({"val_auc"})
    /\ pc' = "print_train"
    /\ UNCHANGED <<pureVars, epoch, sizeVars, testVars, ti, vi, inputs, params, stepVars,
                   metricVars, train_loss_results, train_roc_auc_results,
                   val_loss_results, out, failed>>

(* print("Epoch {:03d}: Training loss: {:.3f}, ROC AUC: {:.3%}".format(    *)
(*     epoch, train_epoch_loss_avg.result(), train_epoch_roc_auc.result()))*)
EmitTrainLine ==
    /\ pc = "print_train"
    /\ out' = Append(out, [kind |-> "train",
                           epoch |-> Format03d(epoch),
                           loss |-> MeanResult(train_epoch_loss_avg),
                           auc |-> AUCResult(train_epoch_roc_auc)])
    /\ reads' = Read({"train_loss", "train_auc"})
    /\ pc' = "print_val"
    /\ UNCHANGED <<pureVars, epoch, sizeVars, testVars, ti, vi, inputs, params, stepVars,
                   metricVars, resultVars, failed>>

(* print("              Validation loss: {:.3f}, ROC AUC {:.3%}".format(   *)
(*     val_epoch_loss_avg.result(), val_epoch_roc_auc.result()))           *)
(* The last statement of the loop body: the for statement takes the next   *)
(* value of range(num_epochs).                                             *)
EmitValLine ==
    /\ pc = "print_val"
    /\ out' = Append(out, [kind |-> "val",
                           epoch |-> <<>>,
                           loss |-> MeanResult(val_epoch_loss_avg),
                           auc |-> AUCResult(val_epoch_roc_auc)])
    /\ reads' = Read({"val_loss", "val_auc"})
    /\ epoch' = epoch + 1
    /\ pc' = "for_epoch"
    /\ UNCHANGED <<pureVars, sizeVars, testVars, ti, vi, inputs, params, stepVars,
                   metricVars, resultVars, failed>>

(* No statement of the cell is inside a try: an exception raised by the    *)
(* forward pass, the loss, the gradient, the update or a metric update     *)
(* ends the execution of the cell, and of the notebook run, before the     *)
(* statement has assigned anything.                                        *)
RaisingSteps == {"grad", "apply_gradients", "train_loss_avg", "train_roc_auc",
                 "val_preds", "val_loss_avg", "val_roc_auc"}

(* Raise with the exception caught and the loop going on to the next batch *)
Raise_swallowed ==
    /\ pc \in RaisingSteps
    /\ failed' = TRUE
    /\ pc' = IF pc \in {"grad", "apply_gradients", "train_loss_avg", "train_roc_auc"}
             THEN "for_train" ELSE "for_val"
    /\ UNCHANGED <<pureVars, epoch, sizeVars, testVars, ti, vi, inputs, params, stepVars,
                   metricVars, resultVars, out, reads>>

Raise ==
    /\ pc \in RaisingSteps
    /\ failed' = TRUE
    /\ pc' = "aborted"
    /\ UNCHANGED <<pureVars, epoch, sizeVars, testVars, ti, vi, inputs, params, stepVars,
                   metricVars, resultVars, out, reads>>

----------------------------------------------------------------------------
(* Test-set evaluation, cells 15 and 16 *)

loopState == <<epoch, sizeVars, ti, vi, stepVars, metricVars, resultVars,
               out, failed, reads>>

(* test_epoch_loss_avg = tf.keras.metrics.Mean()                           *)
(* test_epoch_roc_auc = tf.keras.metrics.AUC(curve='ROC')                  *)
TestMetrics ==
    /\ pc = "test_metrics"
    /\ test_epoch_loss_avg' = NewMean
    /\ test_epoch_roc_auc' = NewAUC
    /\ si' = 0
    /\ pc' = "for_test"
    /\ UNCHANGED <<pureVars, loopState, numTest, inputs, params, model_pred, test_out>>

(* for inputs, labels in test_dataset: *)
ForTest ==
    /\ pc = "for_test"
    /\ IF si < numTest
         THEN /\ si' = si + 1
              /\ inputs' = Batch("test", epoch, si + 1)
              /\ pc' = "test_pred"
         ELSE /\ UNCHANGED <<pureVars, si, inputs>>
              /\ pc' = "print_test_loss"
    /\ UNCHANGED <<pureVars, loopState, numTest, params, model_pred, test_epoch_loss_avg,
                   test_epoch_roc_auc, test_out>>

(* model_pred = model(inputs) *)
TestPred ==
    /\ pc = "test_pred"
    /\ model_pred' = Predict(params, inputs)
    /\ pc' = "test_loss_avg"
    /\ UNCHANGED <<pureVars, loopState, numTest, si, inputs, params, test_epoch_loss_avg,
                   test_epoch_roc_auc, test_out>>

(* test_epoch_loss_avg(loss(labels, model_pred)) *)
TestLossAvg ==
    /\ pc = "test_loss_avg"
    /\ test_epoch_loss_avg' = MeanUpdate(test_epoch_loss_avg, LossOf(model_pred), model_pred)
    /\ pc' = "test_roc_auc"
    /\ UNCHANGED <<pureVars, loopState, numTest, si, inputs, params, model_pred,
                   test_epoch_roc_auc, test_out>>

(* test_epoch_roc_auc(to_categorical(labels, num_classes=46), model_pred) *)
TestRocAuc ==
    /\ pc = "test_roc_auc"
    /\ test_epoch_roc_auc' = AUCUpdate(test_epoch_roc_auc, model_pred)
    /\ pc' = "for_test"
    /\ UNCHANGED <<pureVars, loopState, numTest, si, inputs, params, model_pred,
                   test_epoch_loss_avg, test_out>>

(* print("Test loss: {:.3f}".format(test_epoch_loss_avg.result().numpy())) *)
EmitTestLoss ==
    /\ pc = "print_test_loss"
    /\ test_out' = Append(test_out, [kind |-> "test_loss",
                                     value |-> MeanResult(test_epoch_loss_avg)])
    /\ pc' = "print_test_roc_auc"
    /\ UNCHANGED <<pureVars, loopState, numTest, si, inputs, params, model_pred,
                   test_epoch_loss_avg, test_epoch_roc_auc>>

(* print("Test ROC AUC: {:.3%}".format(test_epoch_roc_auc.result().numpy())) *)
EmitTestRocAuc ==
    /\ pc = "print_test_roc_auc"
    /\ test_out' = Append(test_out, [kind |-> "test_auc",
                                     value |-> AUCResult(test_epoch_roc_auc)])
    /\ pc' = "done"
    /\ UNCHANGED <<pureVars, loopState, numTest, si, inputs, params, model_pred,
                   test_epoch_loss_avg, test_epoch_roc_auc>>

----------------------------------------------------------------------------
(* The mean-loss pipeline as a computation on numbers.                     *)
(* Dataset.batch(n) groups consecutive elements n at a time and keeps the  *)
(* shorter remainder as the last batch; the loss object reduces the        *)
(* per-sample losses of a batch to their mean (its default reduction); the *)
(* loop feeds that scalar to the Mean metric.                              *)

NumBatches(n, bs) == (n + bs - 1) \div bs

BatchOf(s, bs, i) == SubSeq(s, (i - 1) * bs + 1, Min(i * bs, Len(s)))

(* ReduceLoss summing instead of averaging *)
ReduceLoss_sum(b) == Rat(SumSeq(b), 1)

ReduceLoss(b) == Rat(SumSeq(b), Len(b))

SeqsUpTo(S, n) == UNION {[1..k -> S] : k \in 0..n}

InitMean ==
    /\ samples \in SeqsUpTo(1..MaxLoss, MaxSamples)
    /\ batch_size \in 1..MaxBatch
    /\ mi = 0
    /\ mean_acc = NewMean
    /\ fed_losses = <<>>
    /\ mean_result = <<0, 1>>
    /\ mpc = "feed"

(* one iteration: loss_value of the next batch goes into the metric *)
MeanFeed ==
    /\ mpc = "feed"
    /\ mi < NumBatches(Len(samples), batch_size)
    /\ LET v == ReduceLoss(BatchOf(samples, batch_size, mi + 1)) IN
         /\ mean_acc' = MeanUpdate(mean_acc, v, mi + 1)
         /\ fed_losses' = Append(fed_losses, v)
    /\ mi' = mi + 1
    /\ UNCHANGED <<samples, batch_size, mean_result, mpc, loopVars, padVars>>

(* after the last batch: result() *)
MeanRead ==
    /\ mpc = "feed"
    /\ mi = NumBatches(Len(samples), batch_size)
    /\ mean_result' = MeanResult(mean_acc)
    /\ mpc' = "read"
    /\ UNCHANGED <<samples, batch_size, mi, mean_acc, fed_losses, loopVars, padVars>>

----------------------------------------------------------------------------
(* pad_sequences(data, maxlen=100, truncating='post'), one sequence at a   *)
(* time.  padding keeps its default 'pre' and value its default 0: a long  *)
(* sequence keeps its first maxlen tokens, a short one gets zeros in front.*)

Zeros(n) == [i \in 1..n |-> 0]

(* PadSequences without the truncation *)
PadSequences_notrunc(s, n) == Zeros(n - Len(s)) \o s

PadSequences(s, n) ==
    LET trunc == IF Len(s) > n THEN SubSeq(s, 1, n) ELSE s
    IN  Zeros(n - Len(trunc)) \o trunc

Tokens(n, k) == [i \in 1..n |-> 1 + ((i * k) % MaxToken)]

InitPad ==
    /\ seq \in {Tokens(n, k) : n \in 0..MaxSeqLen, k \in 1..MaxStride}
    /\ padded = <<>>
    /\ repadded = <<>>
    /\ ppc = "raw"

Pad ==
    /\ ppc = "raw"
    /\ padded' = PadSequences(seq, maxlen)
    /\ ppc' = "padded"
    /\ UNCHANGED <<seq, repadded, loopVars, meanVars>>

Repad ==
    /\ ppc = "padded"
    /\ repadded' = PadSequences(padded, maxlen)
    /\ ppc' = "repadded"
    /\ UNCHANGED <<seq, padded, loopVars, meanVars>>

----------------------------------------------------------------------------
(* Specifications.  In each, the variables of the other two parts keep a   *)
(* fixed value.                                                            *)

IdleLoop ==
    /\ pc = "idle"
    /\ epoch = 0
    /\ numTrain = 0 /\ numVal = 0 /\ numTest = 0
    /\ ti = 0 /\ vi = 0 /\ si = 0
    /\ inputs = NoBatch
    /\ params = 0
    /\ model_preds = NoPreds
    /\ loss_value = <<0, 1>>
    /\ grads = Gradient(NoPreds)
    /\ train_epoch_loss_avg = NewMean
    /\ train_epoch_roc_auc = NewAUC
    /\ val_epoch_loss_avg = NewMean
    /\ val_epoch_roc_auc = NewAUC
    /\ test_epoch_loss_avg = NewMean
    /\ test_epoch_roc_auc = NewAUC
    /\ model_pred = NoPreds
    /\ test_out = <<>>
    /\ train_loss_results = <<>>
    /\ train_roc_auc_results = <<>>
    /\ val_loss_results = <<>>
    /\ val_roc_auc_results = <<>>
    /\ out = <<>>
    /\ failed = FALSE
    /\ reads = [m \in MetricNames |-> 0]

IdleMean ==
    /\ samples = <<>>
    /\ batch_size = 1
    /\ mi = 0
    /\ mean_acc = NewMean
    /\ fed_losses = <<>>
    /\ mean_result = <<0, 1>>
    /\ mpc = "idle"

IdlePad ==
    /\ seq = <<>>
    /\ padded = <<>>
    /\ repadded = <<>>
    /\ ppc = "idle"

Init == InitLoop /\ IdleMean /\ IdlePad

Next ==
    \/ ForEpoch \/ NewMetrics
    \/ ForTrain \/ Grad \/ ApplyGradients \/ TrainLossAvg \/ TrainRocAuc
    \/ ForVal \/ ValPreds \/ ValLossAvg \/ ValRocAuc
    \/ AppendTrainLoss \/ AppendTrainRocAuc \/ AppendValLoss \/ AppendValRocAuc
    \/ EmitTrainLine \/ EmitValLine
    \/ Raise
    \/ TestMetrics \/ ForTest \/ TestPred \/ TestLossAvg \/ TestRocAuc
    \/ EmitTestLoss \/ EmitTestRocAuc

Spec == Init /\ [][Next]_vars

InitM == IdleLoop /\ InitMean /\ IdlePad

NextM == MeanFeed \/ MeanRead

SpecMean == InitM /\ [][NextM]_vars

InitP == IdleLoop /\ IdleMean /\ InitPad

NextP == Pad \/ Repad

SpecPad == InitP /\ [][NextP]_vars

----------------------------------------------------------------------------
(* Properties of the training loop *)

TrainSteps == {"for_train", "grad", "apply_gradients", "train_loss_avg", "train_roc_auc"}

ValSteps == {"for_val", "val_preds", "val_loss_avg", "val_roc_auc"}

ReportSteps == {"append_train_loss", "append_train_roc_auc", "append_val_loss",
                "append_val_roc_auc", "print_train", "print_val"}

Phase(p) ==
    IF p \in TrainSteps THEN "training"
    ELSE IF p \in ValSteps THEN "validating"
    ELSE IF p \in ReportSteps THEN "reporting"
    ELSE "none"

ResultLens == <<Len(train_loss_results), Len(train_roc_auc_results),
                Len(val_loss_results), Len(val_roc_auc_results)>>

(* what is true of a state in each phase of epoch number epoch *)
PhaseState ==
    /\ Phase(pc) \in {"training", "validating"} =>
          /\ ResultLens = <<epoch, epoch, epoch, epoch>>
          /\ Len(out) = 2 * epoch
    /\ Phase(pc) = "training" =>
          /\ val_epoch_loss_avg.count = 0
          /\ val_epoch_roc_auc.fed = <<>>
    /\ Phase(pc) \in {"validating", "reporting"} =>
          /\ ti = numTrain
          /\ train_epoch_loss_avg.count = numTrain
          /\ Len(train_epoch_roc_auc.fed) = numTrain
    /\ Phase(pc) = "reporting" =>
          /\ vi = Min(numVal, val_steps)
          /\ val_epoch_loss_avg.count = vi
          /\ Len(val_epoch_roc_auc.fed) = vi

(* how the phase may change in one step *)
PhaseStep ==
    LET a == Phase(pc)
        b == Phase(pc')
    IN  /\ \/ a = b
           \/ a = "none" /\ b = "training" /\ pc = "new_metrics"
           \/ a = "training" /\ b = "validating"
           \/ a = "validating" /\ b = "reporting"
           \/ a = "reporting" /\ b = "none" /\ pc' = "for_epoch" /\ epoch' = epoch + 1
           \/ a \in {"training", "validating"} /\ pc' = "aborted"
        /\ epoch' # epoch => a = "reporting" /\ b = "none"
        /\ pc = "for_epoch" => pc' \in {"new_metrics", "test_metrics"}
        /\ pc = "for_epoch" /\ epoch < num_epochs => pc' = "new_metrics"

\* C1: in every epoch the phases run in the order training, validating,
\* reporting: validation starts only when every training batch of the epoch
\* has been processed, nothing is appended or printed before the last
\* validation batch, and a phase is entered once per epoch, only from the
\* phase before it.
C1_PhaseOrder == [][PhaseState /\ PhaseState' /\ PhaseStep]_vars

C1_Witness ==
    /\ pc = "print_val" /\ epoch = 1
    /\ numTrain >= 2 /\ numVal > val_steps
    /\ Len(out) = 3

(* the number of optimizer steps due at a position of an unfailed run *)
UpdatesDue ==
    IF pc \in {"grad", "apply_gradients"} THEN epoch * numTrain + ti - 1
    ELSE IF pc \in {"for_train", "train_loss_avg", "train_roc_auc"} THEN epoch * numTrain + ti
    ELSE IF Phase(pc) \in {"validating", "reporting"} THEN (epoch + 1) * numTrain
    ELSE epoch * numTrain

BatchesFed(m) == [i \in 1..Len(m.fed) |-> m.fed[i].batch]

\* C2: within an epoch the training batches 1..B are read once each, in
\* order, and each is followed by one optimizer step before the next is
\* read; after k completed epochs the parameters have had k*B steps.
C2_OneUpdatePerBatch ==
    ~failed =>
        /\ ti <= numTrain
        /\ params = UpdatesDue
        /\ pc \in TrainSteps \ {"for_train"} => ti >= 1 /\ inputs = Batch("train", epoch, ti)
        /\ pc = "for_train" =>
              BatchesFed(train_epoch_loss_avg) = [i \in 1..ti |-> Batch("train", epoch, i)]
        /\ pc = "for_epoch" => params = epoch * numTrain

C2_Witness ==
    /\ pc = "for_epoch" /\ epoch = 2
    /\ numTrain = 3 /\ params = 6

\* C3: the parameters change only in the optimizer's apply step of the
\* training loop; grad, the metric updates, the validation batches, the
\* reporting and the test-set evaluation leave them as they are.
C3_OnlyApplyChangesParams ==
    [][params' # params => pc = "apply_gradients" /\ pc' = "train_loss_avg"]_vars

C3_Witness ==
    /\ pc = "done"
    /\ numTrain >= 1 /\ numVal >= 1 /\ numTest >= 1
    /\ params = num_epochs * numTrain
    /\ Len(test_epoch_roc_auc.fed) = numTest

\* C4: the validation phase of an epoch processes the first min(val_steps, V)
\* validation batches and no more: never more than val_steps = 10.
C4_BoundedValidation ==
    /\ vi <= 10 /\ vi <= numVal
    /\ val_epoch_loss_avg.count <= 10
    /\ Len(val_epoch_roc_auc.fed) <= 10
    /\ Phase(pc) = "reporting" =>
          /\ numVal <= 10 => vi = numVal
          /\ numVal >= 10 => vi = 10
          /\ val_epoch_loss_avg.count = vi
          /\ BatchesFed(val_epoch_loss_avg) = [i \in 1..vi |-> Batch("val", epoch, i)]
          /\ BatchesFed(val_epoch_roc_auc) = [i \in 1..vi |-> Batch("val", epoch, i)]

C4_Witness ==
    /\ pc = "append_train_loss"
    /\ numVal > val_steps
    /\ val_epoch_loss_avg.count = val_steps
    /\ epoch = 1

IsEmptyMean(m) == m.count = 0 /\ m.total = <<0, 1>> /\ m.fed = <<>>

IsEmptyAUC(a) == a.fed = <<>>

FedIn(m, e) == \A i \in 1..Len(m.fed) : m.fed[i].batch.epoch = e

LossesFed(m) == [i \in 1..Len(m.fed) |-> LossOf(m.fed[i])]

MeanIsOfFed(m) == m.count = Len(m.fed) /\ m.total = RSumSeq(LossesFed(m))

(* the mean losses of epoch e, from the batches of epoch e alone *)
TrainLossOfEpoch(e) ==
    IF numTrain = 0 THEN <<0, 1>>
    ELSE RDivInt(RSumSeq([i \in 1..numTrain |->
                     LossOf(Predict(e * numTrain + i - 1, Batch("train", e, i)))]),
                 numTrain)

ValLossOfEpoch(e) ==
    LET n == Min(numVal, val_steps) IN
    IF n = 0 THEN <<0, 1>>
    ELSE RDivInt(RSumSeq([i \in 1..n |->
                     LossOf(Predict((e + 1) * numTrain, Batch("val", e, i)))]),
                 n)

AllFrom(obs, e) == \A i \in 1..Len(obs) : obs[i].batch.epoch = e

\* C5: the four metric objects are new in every epoch: they are empty when
\* the first batch of the epoch is processed, during the epoch they hold
\* batches of that epoch only, and every value reported for epoch e is
\* computed from the batches of epoch e alone.
C5_MetricsResetEachEpoch ==
    /\ pc = "grad" /\ ti = 1 =>
          /\ IsEmptyMean(train_epoch_loss_avg) /\ IsEmptyAUC(train_epoch_roc_auc)
          /\ IsEmptyMean(val_epoch_loss_avg) /\ IsEmptyAUC(val_epoch_roc_auc)
    /\ pc = "val_preds" /\ vi = 1 =>
          IsEmptyMean(val_epoch_loss_avg) /\ IsEmptyAUC(val_epoch_roc_auc)
    /\ Phase(pc) # "none" =>
          /\ FedIn(train_epoch_loss_avg, epoch) /\ FedIn(train_epoch_roc_auc, epoch)
          /\ FedIn(val_epoch_loss_avg, epoch) /\ FedIn(val_epoch_roc_auc, epoch)
          /\ MeanIsOfFed(train_epoch_loss_avg) /\ MeanIsOfFed(val_epoch_loss_avg)
    /\ \A k \in 1..Len(train_loss_results) : train_loss_results[k] = TrainLossOfEpoch(k - 1)
    /\ \A k \in 1..Len(val_loss_results) : val_loss_results[k] = ValLossOfEpoch(k - 1)
    /\ \A k \in 1..Len(train_roc_auc_results) : AllFrom(train_roc_auc_results[k], k - 1)
    /\ \A k \in 1..Len(val_roc_auc_results) : AllFrom(val_roc_auc_results[k], k - 1)
    /\ \A k \in 1..Len(out) :
          /\ out[k].kind = "train" =>
                out[k].loss = TrainLossOfEpoch((k - 1) \div 2) /\ AllFrom(out[k].auc, (k - 1) \div 2)
          /\ out[k].kind = "val" =>
                out[k].loss = ValLossOfEpoch((k - 1) \div 2) /\ AllFrom(out[k].auc, (k - 1) \div 2)

C5_Witness ==
    /\ pc = "grad" /\ ti = 1 /\ epoch = 1
    /\ numTrain >= 2 /\ numVal >= 2
    /\ Len(train_roc_auc_results[1]) = numTrain
    /\ Len(val_roc_auc_results[1]) >= 2

Metric(m) ==
    IF m = "train_loss" THEN train_epoch_loss_avg
    ELSE IF m = "train_auc" THEN train_epoch_roc_auc
    ELSE IF m = "val_loss" THEN val_epoch_loss_avg
    ELSE val_epoch_roc_auc

\* C6 as claimed: in every epoch the result of each metric object is read
\* exactly once, after the last batch of its phase, and the object is not
\* read again.
C6_ReadOnce ==
    /\ \A m \in MetricNames : reads[m] <= 1
    /\ Phase(pc) \in {"training", "validating"} => \A m \in MetricNames : reads[m] = 0
    /\ pc = "for_epoch" /\ epoch > 0 => \A m \in MetricNames : reads[m] = 1

ReadState ==
    /\ \A m \in MetricNames : reads[m] <= 2
    /\ Phase(pc) \in {"training", "validating"} => \A m \in MetricNames : reads[m] = 0
    /\ pc = "print_train" => \A m \in MetricNames : reads[m] = 1
    /\ pc = "for_epoch" /\ epoch > 0 => \A m \in MetricNames : reads[m] = 2
    /\ \A k \in 1..Len(out) :
          LET e == (k + 1) \div 2 IN
          /\ out[k].kind = "train" =>
                out[k].loss = train_loss_results[e] /\ out[k].auc = train_roc_auc_results[e]
          /\ out[k].kind = "val" =>
                out[k].loss = val_loss_results[e] /\ out[k].auc = val_roc_auc_results[e]

\* C6 as amended: in every epoch the result of each metric object is read
\* exactly twice, once for the appended result and once for the printed
\* line, both times after the last batch of the epoch and with the same
\* value; once read, the object is not updated, and it is replaced by a new
\* object at the start of the next epoch.
C6_ReadTwiceAtEpochEnd ==
    [][/\ ReadState /\ ReadState'
       /\ \A m \in MetricNames :
             reads[m] >= 1 /\ Metric(m)' # Metric(m) => pc = "new_metrics"
       /\ reads' # reads => pc \in ReportSteps \/ pc = "new_metrics"]_vars

C6_Witness ==
    /\ pc = "for_epoch" /\ epoch = 1
    /\ numTrain >= 1 /\ numVal >= 1
    /\ \A m \in MetricNames : reads[m] = 2

\* C7: the output of the loop is, for e = 0 .. num_epochs-1 in ascending
\* order, one training line carrying e followed at once by one validation
\* line; the loop ends after num_epochs pairs; at the end of every epoch
\* each of the four result lists has one entry per epoch run.
C7_OutputPerEpoch ==
    /\ epoch <= num_epochs
    /\ Len(out) = 2 * epoch + (IF pc = "print_val" THEN 1 ELSE 0)
    /\ \A k \in 1..Len(out) :
          IF k % 2 = 1
            THEN /\ out[k].kind = "train"
                 /\ Len(out[k].epoch) = 3
                 /\ ParseDigits(out[k].epoch) = (k - 1) \div 2
            ELSE out[k].kind = "val"
    /\ pc \notin ReportSteps => ResultLens = <<epoch, epoch, epoch, epoch>>
    /\ pc \in {"print_train", "print_val"} =>
          ResultLens = <<epoch + 1, epoch + 1, epoch + 1, epoch + 1>>
    /\ pc \in {"test_metrics", "for_test", "test_pred", "test_loss_avg", "test_roc_auc",
               "print_test_loss", "print_test_roc_auc", "done"} =>
          /\ epoch = num_epochs
          /\ Len(out) = 2 * num_epochs

C7_Witness ==
    /\ pc = "done"
    /\ Len(out) = 10
    /\ out[9].epoch = <<0, 0, 4>>
    /\ numTrain >= 1 /\ numVal >= 1

TrainPredsBeforeUpdate(i) == Predict(epoch * numTrain + i - 1, Batch("train", epoch, i))

(* the predictions of validation batch i of this epoch, made after the last update *)
ValPredsAfterTraining(i) == Predict((epoch + 1) * numTrain, Batch("val", epoch, i))

(* what holds at a position inside an epoch; every such position has a next step *)
BatchStepState ==
    /\ pc = "apply_gradients" =>
          /\ model_preds = Predict(params, inputs)
          /\ loss_value = LossOf(model_preds)
          /\ grads = Gradient(model_preds)
    /\ pc \in {"train_loss_avg", "train_roc_auc"} =>
          /\ model_preds = Predict(params - 1, inputs)
          /\ loss_value = LossOf(model_preds)
          /\ grads = Gradient(model_preds)
    /\ Phase(pc) # "none" =>
          /\ \A i \in 1..Len(train_epoch_loss_avg.fed) :
                train_epoch_loss_avg.fed[i] = TrainPredsBeforeUpdate(i)
          /\ \A i \in 1..Len(train_epoch_roc_auc.fed) :
                train_epoch_roc_auc.fed[i] = TrainPredsBeforeUpdate(i)
          /\ train_epoch_loss_avg.total =
                RSumSeq([i \in 1..Len(train_epoch_loss_avg.fed) |->
                            LossOf(TrainPredsBeforeUpdate(i))])
          /\ \A i, j \in 1..Len(train_epoch_loss_avg.fed) :
                i # j => train_epoch_loss_avg.fed[i].params # train_epoch_loss_avg.fed[j].params
          /\ \A i \in 1..Len(val_epoch_loss_avg.fed) :
                val_epoch_loss_avg.fed[i] = ValPredsAfterTraining(i)
          /\ \A i \in 1..Len(val_epoch_roc_auc.fed) :
                val_epoch_roc_auc.fed[i] = ValPredsAfterTraining(i)
          /\ val_epoch_loss_avg.total =
                RSumSeq([i \in 1..Len(val_epoch_loss_avg.fed) |->
                            LossOf(ValPredsAfterTraining(i))])

BatchStepOrder ==
    /\ pc = "grad" => pc' \in {"apply_gradients", "aborted"}
    /\ pc = "apply_gradients" => pc' \in {"train_loss_avg", "aborted"}
    /\ pc = "train_loss_avg" => pc' \in {"train_roc_auc", "aborted"}
    /\ pc = "train_roc_auc" => pc' \in {"for_train", "aborted"}
    /\ <<model_preds, loss_value, grads>>' # <<model_preds, loss_value, grads>> =>
          pc \in {"grad", "val_preds"}
    /\ train_epoch_loss_avg' # train_epoch_loss_avg =>
          pc = "new_metrics" \/ (pc = "train_loss_avg" /\ params = UpdatesDue)
    /\ train_epoch_roc_auc' # train_epoch_roc_auc =>
          pc = "new_metrics" \/ (pc = "train_roc_auc" /\ params = UpdatesDue)

\* C11: in a training batch the steps run in the order predictions, loss
\* and gradients (grad), parameter update, metric accumulation; the loss
\* and the predictions that go into the training metrics are those made
\* with the parameters before that batch's update, so the training metrics
\* of an epoch are measured over parameters that differ from batch to
\* batch, while its validation metrics are all measured with the
\* parameters reached after the last training update of the epoch.
C11_MetricsSeeStaleParams ==
    [][BatchStepState /\ BatchStepOrder]_vars

C11_Witness ==
    /\ pc = "append_train_loss" /\ epoch = 1
    /\ numTrain = 3 /\ numVal >= 2
    /\ train_epoch_loss_avg.fed[1].params = 3
    /\ train_epoch_loss_avg.fed[3].params = 5
    /\ val_epoch_loss_avg.fed[1].params = 6
    /\ val_epoch_loss_avg.fed[2].params = 6

----------------------------------------------------------------------------
(* Properties of the mean-loss pipeline *)

SampleMean(s) == IF s = <<>> THEN <<0, 1>> ELSE Rat(SumSeq(s), Len(s))

(* the value the pipeline reports when the samples are grouped bs at a time *)
GroupedMean(s, bs) ==
    LET n == NumBatches(Len(s), bs) IN
    IF n = 0 THEN <<0, 1>>
    ELSE RDivInt(RSumSeq([i \in 1..n |-> SampleMean(BatchOf(s, bs, i))]), n)

FedIsBatchMeans ==
    /\ Len(fed_losses) = mi
    /\ \A i \in 1..mi :
          LET b == BatchOf(samples, batch_size, i) IN
          fed_losses[i][1] * Len(b) = SumSeq(b) * fed_losses[i][2]

ReportsMeanOfFed ==
    /\ mi = NumBatches(Len(samples), batch_size)
    /\ mean_acc.count = mi
    /\ mi > 0 => mean_result[1] * mi * RSumSeq(fed_losses)[2]
                   = RSumSeq(fed_losses)[1] * mean_result[2]
    /\ mi = 0 => mean_result = <<0, 1>>

\* C9 as claimed: the Mean fed the per-batch losses reports their arithmetic
\* mean, and the reported value is the same however the samples are grouped
\* into batches.
C9_GroupingInvariant ==
    mpc = "read" =>
        /\ FedIsBatchMeans
        /\ ReportsMeanOfFed
        /\ \A bs \in 1..MaxBatch : mean_result = GroupedMean(samples, bs)

\* C9 as amended: the Mean fed the per-batch losses reports their arithmetic
\* mean; the reported value is the same for every grouping into batches of
\* equal size, where it is the mean of the samples.
C9_MeanOfBatchLosses ==
    mpc = "read" =>
        /\ FedIsBatchMeans
        /\ ReportsMeanOfFed
        /\ Len(samples) % batch_size = 0 => mean_result = SampleMean(samples)
        /\ \A bs \in 1..MaxBatch :
              Len(samples) % batch_size = 0 /\ Len(samples) % bs = 0 =>
                  mean_result = GroupedMean(samples, bs)

C9_Witness ==
    /\ mpc = "read"
    /\ Len(samples) = 4 /\ batch_size = 2 /\ mi = 2
    /\ samples[1] + samples[2] # samples[3] + samples[4]
    /\ mean_result = SampleMean(samples)

----------------------------------------------------------------------------
(* Properties of the padding *)

\* C10: the padded sequence has exactly the fixed length 100; a sequence
\* that already has that length is left unchanged, so padding the padded
\* sequence again changes nothing.
C10_PadIdempotent ==
    /\ ppc \in {"padded", "repadded"} =>
          /\ Len(padded) = 100
          /\ Len(seq) = 100 => padded = seq
    /\ ppc = "repadded" =>
          /\ Len(repadded) = 100
          /\ repadded = padded

C10_Witness ==
    /\ ppc = "repadded"
    /\ Len(seq) = 100
    /\ repadded = seq

====
